---- MODULE Spec2Model ----
(***************************************************************************)
(* A model of db_compare (src/main.py): the diff-to-DDL compiler of        *)
(* DBReviser and the migration lifecycle driven by apply_migrations.       *)
(*                                                                         *)
(* Representation of Python values:                                        *)
(*   - a one-line str is a sequence of string tokens (the pieces the       *)
(*     f-string puts together); the empty str "" is the empty sequence;    *)
(*   - a str that may hold "\n" (a "text") is the non-empty sequence of    *)
(*     its lines, so "" is << <<>> >> and "a\nb" is <<a, b>>;              *)
(*   - a list of str is a sequence of texts;                               *)
(*   - None is NoneVal;                                                    *)
(*   - a function that may raise returns [err, val, partial]: err is ""    *)
(*     or the exception's class, val the returned value, partial the       *)
(*     sql_commands built when the exception was raised.                   *)
(* Non-ASCII characters of the source are transliterated:                  *)
(*   the Cyrillic letter de is "de" (lower case) and "DE" (upper case).    *)
(***************************************************************************)
EXTENDS Integers, Sequences, FiniteSets, TLC

VARIABLES
    pc,             \* control location of the program
    cmp,            \* the comparator's last CompareResult
    res,            \* outcome of the last compare_schemas call
    files,          \* the working directory: file name -> text
    now,            \* the clock, in minutes
    last_migration, \* apply_migrations: the file find_latest_migration_file gave
    next_message,   \* apply_migrations: TRUE in a repeat round
    answer,         \* apply_migrations: what the operator typed at input()
    script,         \* apply_migrations: the lines still to go through
    executed,       \* the statements sent to right_db_connection in this round
    outcome,        \* what the run printed last / how it ended
    listing,        \* os.listdir("."), for find_latest_migration_file
    found,          \* the result of find_latest_migration_file
    fk_in,          \* input of process_foreign_keys
    fk_out          \* result of process_foreign_keys

vars == <<pc, cmp, res, files, now, last_migration, next_message, answer,
          script, executed, outcome, listing, found, fk_in, fk_out>>

-----------------------------------------------------------------------------
(* Bounds of the model *)

MaxEntries == 2     \* descriptors in one DiffModel of the compiler's inputs
MaxFk == 2          \* descriptors in each list of a foreign_keys facet
MaxDir == 3         \* entries in a directory listing
MaxClock == 1       \* the clock's last minute

-----------------------------------------------------------------------------
(* Python values *)

NoneVal == << <<"<None>">> >>
NoneTok == "<None>"

DEFAULT_MIGRATION_FILE_PREFIX == "migration_"

right_db_name == "prod"

Ok(v) == [err |-> "", val |-> v, partial |-> <<>>]
Raise(e, p) == [err |-> e, val |-> NoneVal, partial |-> p]

NotImplementedError == "NotImplementedError"
TypeError == "TypeError"
ValueError == "ValueError"

RECURSIVE Concat(_)
Concat(texts) ==
    IF texts = <<>> THEN <<>> ELSE Head(texts) \o Concat(Tail(texts))

\* "\n".join(texts) for a list of str
Join(texts) == IF texts = <<>> THEN << <<>> >> ELSE Concat(texts)

\* "\n".join(items) as Python runs it: a None among the items is a TypeError
JoinChecked(items) ==
    IF \E i \in 1..Len(items) : items[i] = NoneVal
    THEN Raise(TypeError, items)
    ELSE Ok(Join(items))

IfTok(cond, toks) == IF cond THEN toks ELSE <<>>

\* r, then K on its value: an exception raised in r goes up through the caller,
\* whose own sql_commands (before) stay ahead of what r had built
Then(r, before, K(_)) ==
    IF r.err # "" THEN Raise(r.err, before \o r.partial) ELSE K(r.val)

-----------------------------------------------------------------------------
(* The DDL compiler *)

\* DESCRIBE <table> on the left connection: one row per column,
\* (name, type, nullable, key, default, extra)
Describe(table) == << <<"id", "INT", "NO", "PRI", NoneTok, "AUTO_INCREMENT">> >>

\* tables_info: the (table, rows) items in insertion order; a table whose
\* DESCRIBE gives no row gets no key in the defaultdict
read_db_schema(tables_to_add) ==
    LET all == [i \in 1..Len(tables_to_add) |->
                    [table |-> tables_to_add[i], rows |-> Describe(tables_to_add[i])]]
    IN  SelectSeq(all, LAMBDA e : e.rows # <<>>)

col_def(row) ==
    <<row[1], row[2]>>
    \o IfTok(row[3] = "NO", <<"NOT NULL">>)
    \o IfTok(row[4] = "PRI", <<"PRIMARY KEY">>)
    \o IfTok(row[4] = "UNI", <<"UNIQUE">>)
    \o IfTok(row[5] # NoneTok, <<"DEFAULT", "'", row[5], "'">>)
    \o IfTok(row[6] # "", <<row[6]>>)

RECURSIVE CommaJoin(_)
CommaJoin(defs) ==
    IF defs = <<>> THEN <<>>
    ELSE IF Len(defs) = 1 THEN Head(defs)
    ELSE Head(defs) \o <<",">> \o CommaJoin(Tail(defs))

create_table_script(table_name, columns) ==
    <<"CREATE TABLE", right_db_name, table_name, "(">>
    \o CommaJoin([i \in 1..Len(columns) |-> col_def(columns[i])])
    \o <<")">>

create_tables_ddl(tables_info) ==
    Join([i \in 1..Len(tables_info) |->
            << create_table_script(tables_info[i].table, tables_info[i].rows) >>])

DropTableLine(table) == <<"DROP table", right_db_name, table>>

process_schema_change(tables) ==
    LET tables_to_add == tables.left_only
        tables_to_remove == tables.right_only
        created == IF tables_to_add # <<>>
                   THEN << create_tables_ddl(read_db_schema(tables_to_add)) >>
                   ELSE <<>>
        dropped == IF tables_to_remove # <<>>
                   THEN << Join([i \in 1..Len(tables_to_remove) |->
                                    << DropTableLine(tables_to_remove[i]) >>]) >>
                   ELSE <<>>
    IN  Join(created \o dropped)

alter_table_writer(table_name, left_field, col_action, pk) ==
    <<"ALTER TABLE", right_db_name, table_name, col_action, "COLUMN",
      left_field.name, left_field.type>>
    \o IfTok(pk, <<"PRIMARY KEY">>)
    \o IfTok(left_field.autoincrement, <<"AUTO_INCREMENT">>)
    \o IfTok(~left_field.nullable, <<"NOT NULL">>)
    \o IfTok(left_field.default # NoneTok, <<"DEFAULT", left_field.default>>)
    \o IfTok(left_field.comment # "", <<"COMMENT", left_field.comment>>)

IsPrimary(name, left_primary_keys) ==
    \E i \in 1..Len(left_primary_keys) : left_primary_keys[i] = name

process_diff_columns_change(left_only, left_primary_keys, table_name) ==
    Join([i \in 1..Len(left_only) |->
            << alter_table_writer(table_name, left_only[i], "ADD",
                                  IsPrimary(left_only[i].name, left_primary_keys)) >>])

process_same_columns_change(differences, left_primary_keys, table_name) ==
    Join([i \in 1..Len(differences) |->
            << alter_table_writer(table_name, differences[i].left, "MODIFY",
                                  IsPrimary(differences[i].left.name, left_primary_keys)) >>])

DropColumnLine(table_name, column) ==
    <<"ALTER TABLE", right_db_name, table_name, "DROP COLUMN", column.name>>

\* process_column_change with the additions ahead of the removals
process_column_change_AddFirst(columns, primary_keys, table_name) ==
    LET right_only == columns.right_only
        left_primary_keys == primary_keys.left_only
        drops == [i \in 1..Len(right_only) |-> << DropColumnLine(table_name, right_only[i]) >>]
    IN  Join(<< process_diff_columns_change(columns.left_only, left_primary_keys, table_name) >>
             \o drops
             \o << process_same_columns_change(columns.diff, left_primary_keys, table_name) >>)

process_column_change(columns, primary_keys, table_name) ==
    LET right_only == columns.right_only
        left_primary_keys == primary_keys.left_only
        drops == [i \in 1..Len(right_only) |-> << DropColumnLine(table_name, right_only[i]) >>]
    IN  Join(drops
             \o << process_diff_columns_change(columns.left_only, left_primary_keys, table_name) >>
             \o << process_same_columns_change(columns.diff, left_primary_keys, table_name) >>)

DropIndexLine(table_name, index) ==
    <<"DROP INDEX", index.name, "ON", right_db_name, table_name>>

CreateIndexLine(table_name, index) ==
    <<"CREATE", IF index.unique THEN "UNIQUE" ELSE "", "INDEX", index.name, "ON",
      right_db_name, table_name, "(", index.column_names[1], ")">>

\* IndexDropLoop without its check of len(field_names)
RECURSIVE IndexDropLoop_Unchecked(_, _, _)
IndexDropLoop_Unchecked(right_indexes, table_name, sql_commands) ==
    IF right_indexes = <<>> THEN Ok(sql_commands)
    ELSE IndexDropLoop_Unchecked(Tail(right_indexes), table_name,
                                 Append(sql_commands, << DropIndexLine(table_name, Head(right_indexes)) >>))

\* the loop over right_indexes
RECURSIVE IndexDropLoop(_, _, _)
IndexDropLoop(right_indexes, table_name, sql_commands) ==
    IF right_indexes = <<>> THEN Ok(sql_commands)
    ELSE IF Len(Head(right_indexes).column_names) > 1
         THEN Raise(NotImplementedError, sql_commands)
         ELSE IndexDropLoop(Tail(right_indexes), table_name,
                            Append(sql_commands, << DropIndexLine(table_name, Head(right_indexes)) >>))

\* the loop over left_indexes
RECURSIVE IndexCreateLoop(_, _, _)
IndexCreateLoop(left_indexes, table_name, sql_commands) ==
    IF left_indexes = <<>> THEN Ok(sql_commands)
    ELSE IF Len(Head(left_indexes).column_names) > 1
         THEN Raise(NotImplementedError, sql_commands)
         ELSE IndexCreateLoop(Tail(left_indexes), table_name,
                              Append(sql_commands, << CreateIndexLine(table_name, Head(left_indexes)) >>))

process_index_change(indexes, table_name) ==
    Then(IndexDropLoop(indexes.right_only, table_name, <<>>), <<>>,
         LAMBDA dropped :
            Then(IndexCreateLoop(indexes.left_only, table_name, dropped), <<>>,
                 LAMBDA sql_commands : Ok(Join(sql_commands))))

process_primary_keys(primary_keys, table_name) ==
    Join([i \in 1..Len(primary_keys.right_only) |->
            << <<"ALTER TABLE", right_db_name, table_name, "DROP PRIMARY KEY">> >>])

DropFkLine(table_name, fk) ==
    <<"ALTER TABLE", right_db_name, table_name, "DROP FOREIGN KEY", fk.name>>

AddFkLine(table_name, fk) ==
    <<"ALTER TABLE", right_db_name, table_name, "ADD CONSTRAINT", fk.name,
      "FOREIGN KEY", "(", fk.constrained_columns[1], ")", "REFERENCES",
      right_db_name, fk.referred_table, "(", fk.referred_columns[1], ")">>

\* the loop over right_fk: only referred_columns is measured
RECURSIVE FkDropLoop(_, _, _)
FkDropLoop(right_fk, table_name, sql_commands) ==
    IF right_fk = <<>> THEN Ok(sql_commands)
    ELSE IF Len(Head(right_fk).referred_columns) > 1
         THEN Raise(NotImplementedError, sql_commands)
         ELSE FkDropLoop(Tail(right_fk), table_name,
                         Append(sql_commands, << DropFkLine(table_name, Head(right_fk)) >>))

\* the loop over left_fk: its body ends in the function's return statement, so
\* the first iteration returns; with no iteration the function ends without a
\* return statement and gives None
FkAddLoop(left_fk, table_name, sql_commands) ==
    IF left_fk = <<>> THEN Ok(NoneVal)
    ELSE IF Len(Head(left_fk).constrained_columns) > 1
         THEN Raise(NotImplementedError, sql_commands)
         ELSE IF Len(Head(left_fk).referred_columns) > 1
              THEN Raise(NotImplementedError, sql_commands)
              ELSE Ok(Join(Append(sql_commands, << AddFkLine(table_name, Head(left_fk)) >>)))

process_foreign_keys(foreign_keys, table_name) ==
    Then(FkDropLoop(foreign_keys.right_only, table_name, <<>>), <<>>,
         LAMBDA sql_commands : FkAddLoop(foreign_keys.left_only, table_name, sql_commands))

\* truth value of a facet's dict: the comparator gives a sub-list a key only
\* when the sub-list is not empty
ColumnsTruthy(c) == c.right_only # <<>> \/ c.left_only # <<>> \/ c.diff # <<>>
FacetTruthy(f) == f.right_only # <<>> \/ f.left_only # <<>>

\* the four steps of the loop of process_tables_change for one table, each
\* giving sql_commands as it leaves it
AppendColumns(sql_commands, changes, table_name) ==
    IF ColumnsTruthy(changes.columns)
    THEN Append(sql_commands,
                process_column_change(changes.columns, changes.primary_keys, table_name))
    ELSE sql_commands

AppendIndexes(sql_commands, changes, table_name) ==
    IF FacetTruthy(changes.indexes)
    THEN Then(process_index_change(changes.indexes, table_name), sql_commands,
              LAMBDA text : Ok(Append(sql_commands, text)))
    ELSE Ok(sql_commands)

AppendPrimaryKeys(sql_commands, changes, table_name) ==
    IF FacetTruthy(changes.primary_keys)
    THEN Append(sql_commands, process_primary_keys(changes.primary_keys, table_name))
    ELSE sql_commands

AppendForeignKeys(sql_commands, changes, table_name) ==
    IF FacetTruthy(changes.foreign_keys)
    THEN Then(process_foreign_keys(changes.foreign_keys, table_name), sql_commands,
              LAMBDA text : Ok(Append(sql_commands, text)))
    ELSE Ok(sql_commands)

TableCommands(sql_commands, table_name, changes) ==
    Then(AppendIndexes(AppendColumns(sql_commands, changes, table_name), changes, table_name),
         <<>>,
         LAMBDA with_indexes :
            AppendForeignKeys(AppendPrimaryKeys(with_indexes, changes, table_name),
                              changes, table_name))

RECURSIVE TablesLoop(_, _)
TablesLoop(entries, sql_commands) ==
    IF entries = <<>> THEN Ok(sql_commands)
    ELSE Then(TableCommands(sql_commands, Head(entries).name, Head(entries).changes), <<>>,
              LAMBDA appended : TablesLoop(Tail(entries), appended))

process_tables_change(diff) ==
    Then(TablesLoop(diff, <<>>), <<>>, LAMBDA sql_commands : JoinChecked(sql_commands))

-----------------------------------------------------------------------------
(* The migration file store *)

NoneFile == [is_none |-> TRUE]
NoneTime == <<>>
NoneDiff == [is_none |-> TRUE]

\* A directory entry's name: pfx is what it starts with, stamp the five numbers
\* <<Y, m, d, H, M>> when \d{4}-\d{2}-\d{2}-\d{2}-\d{2} follows pfx (<<>> when
\* it does not), sfx what follows
FileName(pfx, stamp, sfx) == [pfx |-> pfx, stamp |-> stamp, sfx |-> sfx]

IsLeap(y) == (y % 4 = 0 /\ y % 100 # 0) \/ y % 400 = 0

DaysIn(y, m) ==
    IF m = 2 THEN (IF IsLeap(y) THEN 29 ELSE 28)
    ELSE IF m \in {4, 6, 9, 11} THEN 30 ELSE 31

\* the run starts on 2023-01-31 at 23:59; the clock counts minutes from there
StartOfRun == 30 * 1440 + 23 * 60 + 59

RECURSIVE MonthDay(_, _, _)
MonthDay(y, m, dayOfYear) ==
    IF dayOfYear < DaysIn(y, m) THEN <<m, dayOfYear + 1>>
    ELSE MonthDay(y, m + 1, dayOfYear - DaysIn(y, m))

\* datetime.now().strftime("%Y-%m-%d-%H-%M")
strftime(t) ==
    LET total == StartOfRun + t
        md == MonthDay(2023, 1, total \div 1440)
    IN  <<2023, md[1], md[2], (total % 1440) \div 60, total % 60>>

\* pattern.match(file): anchored at the start only, the name may go on
pattern_match(file) ==
    file.pfx = DEFAULT_MIGRATION_FILE_PREFIX /\ Len(file.stamp) = 5

\* datetime.strptime(match.group(1), "%Y-%m-%d-%H-%M") raises ValueError unless
\* the five fields are a date and a time of day
strptime_ok(st) ==
    /\ st[1] >= 1
    /\ st[2] \in 1..12
    /\ st[3] >= 1 /\ st[3] <= DaysIn(st[1], st[2])
    /\ st[4] \in 0..23
    /\ st[5] \in 0..59

\* file_time > latest_time on datetime values
RECURSIVE Later(_, _)
Later(a, b) ==
    IF a = <<>> \/ b = <<>> THEN FALSE
    ELSE IF Head(a) # Head(b) THEN Head(a) > Head(b)
    ELSE Later(Tail(a), Tail(b))

RECURSIVE FindLoop(_, _, _)
FindLoop(entries, latest_time, latest_file) ==
    IF entries = <<>> THEN Ok(latest_file)
    ELSE LET file == Head(entries)
         IN  IF pattern_match(file)
             THEN IF ~strptime_ok(file.stamp) THEN Raise(ValueError, <<>>)
                  ELSE IF latest_time = NoneTime \/ Later(file.stamp, latest_time)
                       THEN FindLoop(Tail(entries), file.stamp, file)
                       ELSE FindLoop(Tail(entries), latest_time, latest_file)
             ELSE FindLoop(Tail(entries), latest_time, latest_file)

find_latest_migration_file(entries) == FindLoop(entries, NoneTime, NoneFile)

\* open(name, "w") and file.write("\n".join(migration_ddl))
create_migration_file(fs, t, migration_ddl) ==
    LET name == FileName(DEFAULT_MIGRATION_FILE_PREFIX, strftime(t), "")
    IN  [n \in DOMAIN fs \cup {name} |-> IF n = name THEN Join(migration_ddl) ELSE fs[n]]

\* file.readlines() with each "\n" taken off: a text that ends in "\n" (its
\* last line is empty) has no line after it, and the empty file has no line
read_migration(text) ==
    IF text[Len(text)] = <<>> THEN SubSeq(text, 1, Len(text) - 1) ELSE text

-----------------------------------------------------------------------------
(* compare_schemas *)

get_differences(result) == IF result.is_match THEN NoneDiff ELSE result.errors

Quiet(fs) ==
    [err |-> "", need_second_run |-> FALSE, files |-> fs,
     report |-> "identical", wrote |-> FALSE, partial |-> <<>>]

\* migration_ddl after `if schema_changed:`
SchemaPart(diff) ==
    IF FacetTruthy(diff.tables) THEN << process_schema_change(diff.tables) >> ELSE <<>>

\* migration_ddl after `if columns_changed:`
TablesPart(diff, migration_ddl) ==
    IF diff.tables_data # <<>>
    THEN Then(process_tables_change(diff.tables_data), migration_ddl,
              LAMBDA text : Ok(Append(migration_ddl, text)))
    ELSE Ok(migration_ddl)

\* the end of compare_schemas: the print and create_migration_file, unless an
\* exception went through
Compiled(diff, ddl, fs, t) ==
    IF ddl.err # ""
    THEN [err |-> ddl.err, need_second_run |-> FALSE, files |-> fs,
          report |-> "", wrote |-> FALSE, partial |-> ddl.partial]
    ELSE [err |-> "",
          need_second_run |-> FacetTruthy(diff.tables) \/ diff.tables_data # <<>>,
          files |-> create_migration_file(fs, t, ddl.val),
          report |-> "created", wrote |-> TRUE, partial |-> <<>>]

CompareDiff(diff, fs, t) ==
    IF diff = NoneDiff THEN Quiet(fs)
    ELSE Compiled(diff, TablesPart(diff, SchemaPart(diff)), fs, t)

compare_schemas(result, fs, t) == CompareDiff(get_differences(result), fs, t)

-----------------------------------------------------------------------------
(* The comparator's results the model draws from *)

NamePool(base) ==
    CASE base = "a" -> <<"a1", "a2", "a3", "a4", "a5">>        \* columns.right_only
      [] base = "b" -> <<"b1", "b2", "b3", "b4", "b5">>        \* columns.left_only
      [] base = "c" -> <<"c1", "c2", "c3", "c4", "c5">>        \* columns.diff
      [] base = "ixr" -> <<"ixr1", "ixr2", "ixr3", "ixr4", "ixr5">>
      [] base = "ixl" -> <<"ixl1", "ixl2", "ixl3", "ixl4", "ixl5">>
      [] base = "pkr" -> <<"id1", "id2", "id3", "id4", "id5">>
      [] base = "pkl" -> <<"b1", "c1", "b2", "c2", "b3">>
      [] base = "fkr" -> <<"fkr1", "fkr2", "fkr3", "fkr4", "fkr5">>
      [] base = "fkl" -> <<"fkl1", "fkl2", "fkl3", "fkl4", "fkl5">>
      [] base = "new" -> <<"n1", "n2", "n3", "n4", "n5">>      \* tables.left_only
      [] base = "old" -> <<"o1", "o2", "o3", "o4", "o5">>      \* tables.right_only

ColumnOf(base, i) ==
    [name |-> NamePool(base)[i],
     type |-> IF i % 2 = 1 THEN "INT" ELSE "VARCHAR(8)",
     nullable |-> i % 2 = 0,
     autoincrement |-> i = 3,
     default |-> IF i = 2 THEN "0" ELSE NoneTok,
     comment |-> IF i = 2 THEN "note" ELSE ""]

\* shape "su": one column, unique; "sn": one column, not unique; "m": two columns
IndexOf(base, i, shape) ==
    [name |-> NamePool(base)[i],
     column_names |-> IF shape = "m" THEN <<"b1", "b2">> ELSE <<"b1">>,
     unique |-> shape = "su"]

\* shape <<nc, nr>>: nc constrained columns, nr referred columns
ColumnList(n) == SubSeq(<<"k1", "k2", "k3">>, 1, n)

ForeignKeyOf(base, i, shape) ==
    [name |-> NamePool(base)[i],
     constrained_columns |-> ColumnList(shape[1]),
     referred_table |-> "t0",
     referred_columns |-> ColumnList(shape[2])]

EmptyChanges ==
    [columns |-> [right_only |-> <<>>, left_only |-> <<>>, diff |-> <<>>],
     indexes |-> [right_only |-> <<>>, left_only |-> <<>>],
     primary_keys |-> [right_only |-> <<>>, left_only |-> <<>>],
     foreign_keys |-> [right_only |-> <<>>, left_only |-> <<>>]]

EmptyErrors ==
    [tables |-> [left_only |-> <<>>, right_only |-> <<>>], tables_data |-> <<>>]

\* One descriptor of a DiffModel: the table it belongs to ("" for the tables
\* facet), the list it goes to, and its shape
Atoms ==
    [table : {""}, slot : {"new", "old"}, shape : {"-"}]
    \cup [table : {"t1", "t2"}, slot : {"a", "b", "c", "pkr", "pkl"}, shape : {"-"}]
    \cup [table : {"t1", "t2"}, slot : {"ixr"}, shape : {"sn", "m"}]
    \cup [table : {"t1", "t2"}, slot : {"ixl"}, shape : {"su", "sn", "m"}]
    \cup [table : {"t1", "t2"}, slot : {"fkr", "fkl"}, shape : {"s", "m"}]

\* a foreign key over one column ("s") or over two ("m")
FkShape(shape) == IF shape = "m" THEN <<2, 2>> ELSE <<1, 1>>

AddToChanges(c, a) ==
    CASE a.slot = "a" ->
            [c EXCEPT !.columns.right_only = Append(@, ColumnOf("a", Len(@) + 1))]
      [] a.slot = "b" ->
            [c EXCEPT !.columns.left_only = Append(@, ColumnOf("b", Len(@) + 1))]
      [] a.slot = "c" ->
            [c EXCEPT !.columns.diff =
                Append(@, [left |-> ColumnOf("c", Len(@) + 1), right |-> ColumnOf("c", Len(@) + 2)])]
      [] a.slot = "ixr" ->
            [c EXCEPT !.indexes.right_only = Append(@, IndexOf("ixr", Len(@) + 1, a.shape))]
      [] a.slot = "ixl" ->
            [c EXCEPT !.indexes.left_only = Append(@, IndexOf("ixl", Len(@) + 1, a.shape))]
      [] a.slot = "pkr" ->
            [c EXCEPT !.primary_keys.right_only = Append(@, NamePool("pkr")[Len(@) + 1])]
      [] a.slot = "pkl" ->
            [c EXCEPT !.primary_keys.left_only = Append(@, NamePool("pkl")[Len(@) + 1])]
      [] a.slot = "fkr" ->
            [c EXCEPT !.foreign_keys.right_only = Append(@, ForeignKeyOf("fkr", Len(@) + 1, FkShape(a.shape)))]
      [] a.slot = "fkl" ->
            [c EXCEPT !.foreign_keys.left_only = Append(@, ForeignKeyOf("fkl", Len(@) + 1, FkShape(a.shape)))]

AddAtom(d, a) ==
    IF a.slot = "new"
    THEN [d EXCEPT !.tables.left_only = Append(@, NamePool("new")[Len(@) + 1])]
    ELSE IF a.slot = "old"
    THEN [d EXCEPT !.tables.right_only = Append(@, NamePool("old")[Len(@) + 1])]
    ELSE LET at == {i \in 1..Len(d.tables_data) : d.tables_data[i].name = a.table}
             td == IF at = {}
                   THEN Append(d.tables_data, [name |-> a.table, changes |-> EmptyChanges])
                   ELSE d.tables_data
             k == IF at = {} THEN Len(td) ELSE CHOOSE i \in at : TRUE
         IN  [d EXCEPT !.tables_data = [td EXCEPT ![k].changes = AddToChanges(@, a)]]

RECURSIVE BuildErrors(_, _)
BuildErrors(atoms, d) ==
    IF atoms = <<>> THEN d ELSE BuildErrors(Tail(atoms), AddAtom(d, Head(atoms)))

SeqsUpTo(S, n) == UNION {[1..k -> S] : k \in 0..n}

\* CompareResult of sqlalchemydiff.compare: a match, or the errors mapping; the
\* errors mapping of no descriptor at all is what a difference outside the
\* tables and tables_data facets leaves
CompareResults(n) ==
    {[is_match |-> TRUE, errors |-> EmptyErrors]}
    \cup {[is_match |-> FALSE, errors |-> BuildErrors(s, EmptyErrors)] : s \in SeqsUpTo(Atoms, n)}

-----------------------------------------------------------------------------
(* The compile pass alone: one comparator result, one compare_schemas call *)

Idle ==
    /\ last_migration = NoneFile /\ next_message = FALSE /\ answer = ""
    /\ script = <<>> /\ executed = <<>> /\ outcome = ""
    /\ listing = <<>> /\ found = Ok(NoneFile)
    /\ fk_in = EmptyChanges.foreign_keys /\ fk_out = Ok(NoneVal)

NoResult == [err |-> "", need_second_run |-> FALSE, files |-> <<>>,
             report |-> "", wrote |-> FALSE, partial |-> <<>>]

InitCompile ==
    /\ pc = "compile"
    /\ cmp \in CompareResults(MaxEntries)
    /\ res = NoResult
    /\ files = <<>>
    /\ now = 0
    /\ Idle

CompileStep ==
    /\ pc = "compile"
    /\ \E r \in {compare_schemas(cmp, files, now)} :
           /\ res' = r
           /\ files' = r.files
           /\ pc' = IF r.err # "" THEN "crashed" ELSE "compiled"
    /\ UNCHANGED <<cmp, now, last_migration, next_message, answer, script,
                   executed, outcome, listing, found, fk_in, fk_out>>

NextCompile == CompileStep

SpecCompile == InitCompile /\ [][NextCompile]_vars

-----------------------------------------------------------------------------
(* process_foreign_keys alone *)

FkShapes == {<<1, 1>>, <<1, 2>>, <<2, 1>>, <<2, 2>>}

\* a list of foreign-key descriptors from the list of their shapes
FkList(base, shapes) == [i \in 1..Len(shapes) |-> ForeignKeyOf(base, i, shapes[i])]

FkFacets ==
    {[right_only |-> FkList("fkr", r), left_only |-> FkList("fkl", l)] :
        r \in SeqsUpTo(FkShapes, MaxFk), l \in SeqsUpTo(FkShapes, MaxFk)}

InitFK ==
    /\ pc = "fk"
    /\ fk_in \in {f \in FkFacets : FacetTruthy(f)}
    /\ fk_out = Ok(NoneVal)
    /\ cmp = [is_match |-> TRUE, errors |-> EmptyErrors]
    /\ res = NoResult /\ files = <<>> /\ now = 0
    /\ last_migration = NoneFile /\ next_message = FALSE /\ answer = ""
    /\ script = <<>> /\ executed = <<>> /\ outcome = ""
    /\ listing = <<>> /\ found = Ok(NoneFile)

ForeignKeysStep ==
    /\ pc = "fk"
    /\ fk_out' = process_foreign_keys(fk_in, "t1")
    /\ pc' = "fk_done"
    /\ UNCHANGED <<cmp, res, files, now, last_migration, next_message, answer,
                   script, executed, outcome, listing, found, fk_in>>

NextFK == ForeignKeysStep

SpecFK == InitFK /\ [][NextFK]_vars

-----------------------------------------------------------------------------
(* find_latest_migration_file alone *)

EntryPool ==
    {FileName("migration_", <<2023, 1, 1, 10, 0>>, ""),
     FileName("migration_", <<2023, 2, 1, 9, 0>>, ""),
     FileName("migration_", <<2023, 2, 1, 9, 0>>, ".bak"),
     FileName("migration_", <<2023, 13, 1, 10, 0>>, ""),
     FileName("migration_", <<>>, "final"),
     FileName("backup_", <<2024, 1, 1, 0, 0>>, ""),
     FileName("README", <<>>, "")}

\* os.listdir: the entries of a directory, each once, in any order
Listings(pool, n) ==
    {l \in SeqsUpTo(pool, n) : \A i, j \in 1..Len(l) : i # j => l[i] # l[j]}

InitFind ==
    /\ pc = "find"
    /\ listing \in Listings(EntryPool, MaxDir)
    /\ found = Ok(NoneFile)
    /\ cmp = [is_match |-> TRUE, errors |-> EmptyErrors]
    /\ res = NoResult /\ files = <<>> /\ now = 0
    /\ last_migration = NoneFile /\ next_message = FALSE /\ answer = ""
    /\ script = <<>> /\ executed = <<>> /\ outcome = ""
    /\ fk_in = EmptyChanges.foreign_keys /\ fk_out = Ok(NoneVal)

FindStep ==
    /\ pc = "find"
    /\ found' = find_latest_migration_file(listing)
    /\ pc' = "find_done"
    /\ UNCHANGED <<cmp, res, files, now, last_migration, next_message, answer,
                   script, executed, outcome, listing, fk_in, fk_out>>

NextFind == FindStep

SpecFind == InitFind /\ [][NextFind]_vars

-----------------------------------------------------------------------------
(* The run: main, and apply_migrations with its rounds *)

Atom(table, slot, shape) == [table |-> table, slot |-> slot, shape |-> shape]

\* what the comparator may answer during a run
RunResults ==
    {[is_match |-> TRUE, errors |-> EmptyErrors],
     [is_match |-> FALSE, errors |-> EmptyErrors]}
    \cup {[is_match |-> FALSE, errors |-> BuildErrors(s, EmptyErrors)] : s \in
            {<<Atom("", "old", "-")>>,
             <<Atom("t1", "a", "-"), Atom("t1", "ixl", "su")>>,
             <<Atom("t1", "pkl", "-")>>,
             <<Atom("t1", "ixl", "m")>>}}

\* files found in the directory when the run starts: one stamped before the
\* run, one stamped after its last minute
StaleText == << <<"DROP table", right_db_name, "stale">> >>

InitDirs ==
    {[n \in D |-> StaleText] :
        D \in SUBSET {FileName("migration_", <<2023, 1, 1, 10, 0>>, ""),
                      FileName("migration_", <<2023, 2, 1, 9, 0>>, "")}}

Answers == {"y", "Y", "de", "DE", "n", "yes", ""}

\* str.lower() on the answers
lower(a) == IF a = "Y" THEN "y" ELSE IF a = "DE" THEN "de" ELSE a

\* IsAffirmative with the empty answer taken for a yes
IsAffirmative_EmptyIsYes(a) == lower(a) \in {"y", "de", ""}

\* input(message).lower() in ("y", "de")
IsAffirmative(a) == lower(a) \in {"y", "de"}

\* ShouldExecute without the test
ShouldExecute_Always(line) == TRUE

\* `if script:` in the loop over migration_script
ShouldExecute(line) == line # <<>>

\* ShouldRepeat without the test
ShouldRepeat_Always(second_run) == TRUE

\* `if second_run:` after the re-comparison
ShouldRepeat(second_run) == second_run

Perms(S) ==
    {f \in [1..Cardinality(S) -> S] : \A i, j \in 1..Cardinality(S) : i # j => f[i] # f[j]}

Min(a, b) == IF a < b THEN a ELSE b

Init ==
    /\ pc \in {"main", "apply"}
    /\ files \in InitDirs
    /\ now = 0
    /\ cmp = [is_match |-> TRUE, errors |-> EmptyErrors]
    /\ res = NoResult
    /\ Idle

\* main: reviser.compare_schemas(), then apply_migrations() if it gave True
Main ==
    /\ pc = "main"
    /\ \E c \in RunResults, tick \in {0, 1} :
        \E r \in {compare_schemas(c, files, Min(now + tick, MaxClock))} :
            /\ cmp' = c
            /\ now' = Min(now + tick, MaxClock)
            /\ res' = r
            /\ files' = r.files
            /\ outcome' = IF r.err # "" THEN r.err ELSE r.report
            /\ pc' = IF r.err # "" THEN "crashed"
                     ELSE IF r.need_second_run THEN "apply" ELSE "done"
    /\ UNCHANGED <<last_migration, next_message, answer, script, executed,
                   listing, found, fk_in, fk_out>>

\* apply_migrations up to input(): the latest file is looked up and the prompt
\* naming it is shown, or the run ends saying that nothing was applied
ApplyMigrations ==
    /\ pc = "apply"
    /\ \E l \in Perms(DOMAIN files) :
        \E f \in {find_latest_migration_file(l)} :
            IF f.err # ""
            THEN /\ pc' = "crashed" /\ outcome' = f.err
                 /\ UNCHANGED last_migration
            ELSE IF f.val = NoneFile
            THEN /\ pc' = "done" /\ outcome' = "nothing applied"
                 /\ last_migration' = NoneFile
            ELSE /\ pc' = "confirm" /\ outcome' = "prompt"
                 /\ last_migration' = f.val
    /\ UNCHANGED <<cmp, res, files, now, next_message, answer, script, executed,
                   listing, found, fk_in, fk_out>>

\* the operator answers: on y the file is read and the cursor opened
Answer ==
    /\ pc = "confirm"
    /\ \E a \in Answers :
        /\ answer' = a
        /\ IF IsAffirmative(a)
           THEN /\ script' = read_migration(files[last_migration])
                /\ executed' = <<>>
                /\ pc' = "exec"
                /\ outcome' = "applying"
           ELSE /\ pc' = "done"
                /\ outcome' = "nothing applied"
                /\ UNCHANGED <<script, executed>>
    /\ UNCHANGED <<cmp, res, files, now, last_migration, next_message,
                   listing, found, fk_in, fk_out>>

\* one turn of the loop over migration_script: an empty line is passed over, any
\* other is sent to the right connection, which runs it or raises
ExecStatement ==
    /\ pc = "exec"
    /\ script # <<>>
    /\ \/ /\ ~ShouldExecute(Head(script))
          /\ script' = Tail(script)
          /\ UNCHANGED <<executed, pc, outcome>>
       \/ /\ ShouldExecute(Head(script))
          /\ script' = Tail(script)
          /\ executed' = Append(executed, Head(script))
          /\ UNCHANGED <<pc, outcome>>
       \/ /\ ShouldExecute(Head(script))
          /\ pc' = "crashed"
          /\ outcome' = "execution failed"
          /\ UNCHANGED <<script, executed>>
    /\ UNCHANGED <<cmp, res, files, now, last_migration, next_message, answer,
                   listing, found, fk_in, fk_out>>

\* after the last line: compare_schemas again, and apply_migrations again with
\* the other message if it gave True
Reconcile ==
    /\ pc = "exec"
    /\ script = <<>>
    /\ \E c \in RunResults, tick \in {0, 1} :
        \E r \in {compare_schemas(c, files, Min(now + tick, MaxClock))} :
            /\ cmp' = c
            /\ now' = Min(now + tick, MaxClock)
            /\ res' = r
            /\ files' = r.files
            /\ outcome' = IF r.err # "" THEN r.err ELSE r.report
            /\ pc' = IF r.err # "" THEN "crashed"
                     ELSE IF ShouldRepeat(r.need_second_run) THEN "apply" ELSE "done"
            /\ next_message' = IF r.err = "" /\ ShouldRepeat(r.need_second_run)
                               THEN TRUE ELSE next_message
    /\ UNCHANGED <<last_migration, answer, script, executed,
                   listing, found, fk_in, fk_out>>

Next == Main \/ ApplyMigrations \/ Answer \/ ExecStatement \/ Reconcile

Spec == Init /\ [][Next]_vars

\* every step the program can take is taken in the end: the operator answers
\* the prompt and the database answers each statement
FairSpec == Spec /\ WF_vars(Next)

-----------------------------------------------------------------------------
(* Properties *)

Range(f) == {f[i] : i \in DOMAIN f}

NonEmptyLines(text) == SelectSeq(text, LAMBDA line : line # <<>>)

IsPrefix(a, b) == Len(a) <= Len(b) /\ SubSeq(b, 1, Len(a)) = a

Yes == {"y", "Y", "de", "DE"}

\* C1: a statement is sent to the target connection only in a round whose
\* prompt the operator answered with y or de (in either case); on any other
\* answer the run ends at once: nothing is executed, the schemas are not
\* compared again and no file is written.
C1_ExecutionOnlyAfterYes ==
    [][ /\ (Len(executed') > Len(executed) => answer' \in Yes)
        /\ (pc = "confirm" /\ answer' \notin Yes =>
                /\ pc' = "done"
                /\ executed' = executed /\ files' = files
                /\ res' = res /\ cmp' = cmp /\ now' = now)
        /\ (pc = "done" => FALSE) ]_vars

\* a repeat round, entered after statements were executed, is declined
C1_Witness ==
    /\ pc = "done" /\ next_message /\ answer = "n"
    /\ Len(executed) > 0 /\ outcome = "nothing applied"

\* C2: while the artifact is applied, what was sent to the target connection is
\* a prefix of the artifact's non-empty lines, in the file's order; a statement
\* that fails ends the run: nothing more is executed, compared, written or asked.
C2_ExecutedIsPrefixOfArtifact ==
    [][ /\ (pc' = "exec" =>
                IsPrefix(executed', NonEmptyLines(files'[last_migration'])))
        /\ (outcome' = "execution failed" /\ outcome # "execution failed" =>
                /\ pc' = "crashed" /\ executed' = executed
                /\ files' = files /\ res' = res)
        /\ (pc = "crashed" => FALSE) ]_vars

\* an artifact with blank lines between its statements was executed to its end
C2_Witness ==
    /\ pc = "exec" /\ script = <<>> /\ Len(executed) >= 2
    /\ Len(files[last_migration]) > Len(executed)
    /\ executed = NonEmptyLines(files[last_migration])

SingleColumn(fk) ==
    Len(fk.constrained_columns) = 1 /\ Len(fk.referred_columns) = 1

\* C3: for a foreign_keys facet of single-column descriptors only,
\* process_foreign_keys returns one DROP FOREIGN KEY statement for each
\* right_only entry and then one ADD CONSTRAINT statement for each left_only
\* entry, however many entries each list has.
C3_AllForeignKeyStatements ==
    (/\ pc = "fk_done"
     /\ \A i \in 1..Len(fk_in.right_only) : SingleColumn(fk_in.right_only[i])
     /\ \A i \in 1..Len(fk_in.left_only) : SingleColumn(fk_in.left_only[i]))
    => /\ fk_out.err = ""
       /\ fk_out.val =
            [i \in 1..Len(fk_in.right_only) |-> DropFkLine("t1", fk_in.right_only[i])]
            \o [i \in 1..Len(fk_in.left_only) |-> AddFkLine("t1", fk_in.left_only[i])]

\* the (table, name) of every index descriptor over more than one column
MultiColumnIndexes(errors) ==
    UNION {{<<errors.tables_data[k].name, ix.name>> :
                ix \in {x \in Range(errors.tables_data[k].changes.indexes.right_only)
                              \cup Range(errors.tables_data[k].changes.indexes.left_only) :
                            Len(x.column_names) > 1}} :
            k \in 1..Len(errors.tables_data)}

IndexStatement(line, ref) ==
    /\ line # <<>>
    /\ line[1] \in {"DROP INDEX", "CREATE"}
    /\ ref[1] \in Range(line) /\ ref[2] \in Range(line)

\* C4: when some index descriptor of indexes.left_only or indexes.right_only
\* has more than one column name, compare_schemas raises the unsupported-feature
\* error, no statement was built for that index, and no file is written.
C4_MultiColumnIndexRejected ==
    (/\ pc \in {"compiled", "crashed"}
     /\ ~cmp.is_match
     /\ MultiColumnIndexes(cmp.errors) # {})
    => /\ pc = "crashed"
       /\ res.err = NotImplementedError
       /\ ~res.wrote
       /\ files = <<>>
       /\ \A ref \in MultiColumnIndexes(cmp.errors) :
            \A text \in Range(res.partial) :
                \A i \in 1..Len(text) : ~IndexStatement(text[i], ref)

\* the error is raised after other statements had been built
C4_Witness ==
    /\ pc = "crashed" /\ res.err = NotImplementedError
    /\ MultiColumnIndexes(cmp.errors) # {}
    /\ res.partial # <<>>

\* what a line of the artifact does, and the table it is about
Kind(line) == IF line[1] = "ALTER TABLE" THEN line[4] ELSE line[1]

TableOfLine(line) ==
    IF line[1] = "DROP INDEX" THEN line[5]
    ELSE IF line[1] = "CREATE" THEN line[7]
    ELSE line[3]

InTablesFacet(line) == Kind(line) \in {"CREATE TABLE", "DROP table"}

Phase(line) ==
    CASE Kind(line) = "CREATE TABLE" -> 1
      [] Kind(line) = "DROP table" -> 2
      [] Kind(line) = "DROP COLUMN" -> 3
      [] Kind(line) = "ADD" -> 4
      [] Kind(line) = "MODIFY" -> 5
      [] Kind(line) \in {"DROP INDEX", "CREATE"} -> 6
      [] Kind(line) = "DROP PRIMARY KEY" -> 7
      [] Kind(line) \in {"DROP FOREIGN KEY", "ADD CONSTRAINT"} -> 8

InOrder(first, second) ==
    /\ InTablesFacet(second) => InTablesFacet(first)
    /\ InTablesFacet(first) /\ InTablesFacet(second) => Phase(first) <= Phase(second)
    /\ (~InTablesFacet(first) /\ ~InTablesFacet(second)
        /\ TableOfLine(first) = TableOfLine(second)) => Phase(first) <= Phase(second)

WrittenText == files[FileName(DEFAULT_MIGRATION_FILE_PREFIX, strftime(now), "")]

\* C5: in the compiled text the tables facet comes before the tables_data
\* facet; CREATE TABLE before DROP table; for each table, columns, then indexes,
\* then primary keys, then foreign keys; and DROP COLUMN before ADD COLUMN
\* before MODIFY COLUMN.
C5_StatementOrder ==
    (pc = "compiled" /\ res.wrote)
    => \A i, j \in 1..Len(NonEmptyLines(WrittenText)) :
            i < j => InOrder(NonEmptyLines(WrittenText)[i], NonEmptyLines(WrittenText)[j])

\* a dropped column and a new unique index on the same table
C5_Witness ==
    /\ pc = "compiled" /\ res.wrote
    /\ NonEmptyLines(WrittenText) =
        << <<"ALTER TABLE", "prod", "t1", "DROP COLUMN", "a1">>,
           <<"CREATE", "UNIQUE", "INDEX", "ixl1", "ON", "prod", "t1", "(", "b1", ")">> >>

\* C6: when the tables facet and the tables_data facet are both empty (the
\* comparator reports a match, or gives a mapping with both facets empty),
\* compare_schemas produces nothing, writes no file, reports that the databases
\* are identical and returns that no further round is needed.
C6_NothingToDo ==
    (/\ pc \in {"compiled", "crashed"}
     /\ (cmp.is_match \/ cmp.errors = EmptyErrors))
    => /\ res.err = ""
       /\ ~res.wrote
       /\ files = <<>>
       /\ res.report = "identical"
       /\ ~res.need_second_run

\* C7: in a repeat round the artifact named in the prompt, and executed on
\* confirmation, is the one the reconciliation pass has just written, whatever
\* migration files the directory held before.
C7_RepeatRoundUsesNewArtifact ==
    (pc \in {"confirm", "exec"} /\ next_message)
    => last_migration = FileName(DEFAULT_MIGRATION_FILE_PREFIX, strftime(now), "")

\* an entry named by the prefix and a timestamp
Stamped(e) ==
    e.pfx = DEFAULT_MIGRATION_FILE_PREFIX /\ Len(e.stamp) = 5 /\ strptime_ok(e.stamp)

\* C8: find_latest_migration_file returns the entry with the greatest
\* timestamp among the entries named by the prefix and a YYYY-MM-DD-HH-mm
\* timestamp; the other entries neither change the result nor make it fail;
\* it returns none when no entry is so named.
C8_LatestStampedEntry ==
    pc = "find_done"
    => /\ found.err = ""
       /\ IF \E i \in 1..Len(listing) : Stamped(listing[i])
          THEN /\ found.val \in Range(listing)
               /\ Stamped(found.val)
               /\ \A i \in 1..Len(listing) :
                    Stamped(listing[i]) => ~Later(listing[i].stamp, found.val.stamp)
          ELSE found.val = NoneFile

MultiColumnFks(f) ==
    {fk \in Range(f.right_only) \cup Range(f.left_only) : ~SingleColumn(fk)}

\* C9: when a descriptor of foreign_keys.left_only or foreign_keys.right_only
\* has more than one constrained column or more than one referred column,
\* process_foreign_keys raises the unsupported-feature error and builds no
\* statement for that descriptor.
C9_MultiColumnFkRejected ==
    (pc = "fk_done" /\ MultiColumnFks(fk_in) # {})
    => /\ fk_out.err = NotImplementedError
       /\ \A fk \in MultiColumnFks(fk_in) :
            \A text \in Range(fk_out.partial) :
                \A i \in 1..Len(text) : fk.name \notin Range(text[i])

====
